---- MODULE Spec2Model ----
(***************************************************************************)
(* guild-backup (src/main.rs): a resumable scraper that walks the channels *)
(* of one guild, pages each channel's messages into <id>.messages.json and *)
(* checkpoints its progress in .discord_scrape_state.                      *)
(*                                                                         *)
(* The model follows main() one external effect at a time (a file          *)
(* operation, a network call, a checkpoint save), so that the process can  *)
(* be killed between any two of them and started again on what is left on  *)
(* disk.  In-memory assignments are taken together with the external       *)
(* effect that follows them.  Files are byte sequences; a write lands at   *)
(* the handle's position, as std::fs::File does it.  A message record is   *)
(* three bytes, a delimiter one.  The checkpoint file is the record last   *)
(* saved and the length of the file; a save is one step, and all           *)
(* identifiers serialize to the same length.  A run that has reached the   *)
(* terminal state is not started again.                                    *)
(***************************************************************************)
EXTENDS Integers, Sequences, FiniteSets, TLC

(***************************************************************************)
(* Bounds of the model.                                                    *)
(***************************************************************************)
MaxRuns == 3         \* how many times the process is started
MaxFaults == 2       \* how many network calls fail over all runs

(***************************************************************************)
(* Program constants.  MESSAGE_CHUNK_SIZE is 100 in the source; the model  *)
(* scales it to 2 so that full, short and empty pages all occur.           *)
(***************************************************************************)
MESSAGE_CHUNK_SIZE == 2
OPEN_BRACKET == 91    \* "["
CLOSE_BRACKET == 93   \* "]"
COMMA == 44           \* ","
LBRACE == 123         \* first byte of a serialized message record
RBRACE == 125         \* last byte of a serialized message record
NULL_LEN == 4         \* serialized length of an absent Option ("null")
ID_LEN == 20          \* serialized length of a present identifier

None == 0             \* Option::None for identifiers (identifiers are > 0)

(***************************************************************************)
(* The guild (unchanged over all runs).  guild_channels returns V then T,  *)
(* active_threads returns H; T has one public and one private archived     *)
(* thread.  Messages are listed newest first; identifiers grow with time.  *)
(***************************************************************************)
GUILD == 1
T == 1   \* text channel
V == 2   \* voice channel
H == 3   \* active public thread
A == 4   \* public archived thread of T
P == 5   \* private archived thread of T
ChannelIds == {T, V, H, A, P}

kind(c) ==
    CASE c = T -> "GuildText"
      [] c = V -> "GuildVoice"
      [] c = H -> "GuildPublicThread"
      [] c = A -> "GuildPublicThread"
      [] c = P -> "GuildPrivateThread"

GuildChannels == <<V, T>>
ActiveThreads == <<H>>
PublicArchived(c) == IF c = T THEN <<A>> ELSE <<>>
PrivateArchived(c) == IF c = T THEN <<P>> ELSE <<>>

History(c) ==
    CASE c = T -> <<6, 5>>
      [] c = H -> <<9, 8, 7>>
      [] c = A -> <<4>>
      [] OTHER -> <<>>
MessageIds == 4..9

VARIABLES
    pc,          \* position of the process in main(), or why there is none
    runs,        \* number of runs started so far
    faults,      \* number of failed network calls so far
    ckpt,        \* .discord_scrape_state on disk
    meta,        \* <id>.meta.json on disk, per channel: "absent", "empty",
                 \* "written" (by this program) or "prior" (by another)
    mfile,       \* <id>.messages.json on disk, per channel
    state,       \* main: state
    channels,    \* main: channels (the work list; pop takes the last)
    messages,    \* main: messages (the last page received)
    channel,     \* main: the popped channel
    pos,         \* write position of the open messages file handle
    idx,         \* main: i, the index in the page being written (1-based)
    resumed,     \* this channel took the reopen branch (line 181)
    loaded,      \* the checkpoint record this run loaded (None fields if fresh)
    nfetch,      \* page fetches issued for the popped channel in this run
    lastReq,     \* the last page fetch issued: channel, cursor, outcome
    fetchErr,    \* channels with a failed page fetch, not exhausted since
    popped,      \* the items channels.pop() has returned in this run, in order
    discFailed   \* fetch_archived_threads failed for the popped channel

vars == <<pc, runs, faults, ckpt, meta, mfile, state, channels, messages,
          channel, pos, idx, resumed, loaded, nfetch, lastReq, fetchErr,
          popped, discFailed>>

(***************************************************************************)
(* Helpers.                                                                *)
(***************************************************************************)
Max(a, b) == IF a >= b THEN a ELSE b

Last(s) == s[Len(s)]

Front(s) == SubSeq(s, 1, Len(s) - 1)

Take(s, n) == SubSeq(s, 1, IF Len(s) < n THEN Len(s) ELSE n)

OptLen(o) == IF o = None THEN NULL_LEN ELSE ID_LEN

(***************************************************************************)
(* struct State and its JSON serialization.  Only the length of the        *)
(* serialization matters to the checkpoint file: the fixed text            *)
(* {"current_guild":,"current_channel":,"last_message":,                   *)
(* "channels_complete":[]} is 76 bytes.                                    *)
(***************************************************************************)
FIXED_LEN == 76

NewState ==
    [current_guild |-> GUILD, current_channel |-> None,
     last_message |-> None, channels_complete |-> {}]

SerLen(s) ==
    LET n == Cardinality(s.channels_complete)
    IN  FIXED_LEN + ID_LEN + OptLen(s.current_channel) + OptLen(s.last_message)
        + n * ID_LEN + (IF n > 1 THEN n - 1 ELSE 0)

(***************************************************************************)
(* save_active_state: open(write, create) without truncate, then write the *)
(* serialization from offset 0.  Bytes of a longer previous content stay   *)
(* behind the new content.                                                 *)
(***************************************************************************)
Saved(file, s) ==
    [present |-> TRUE, rec |-> s,
     len |-> Max(IF file.present THEN file.len ELSE 0, SerLen(s))]

NoFile == [present |-> FALSE, rec |-> NewState, len |-> 0]

\* any content taken for a record
Stale_Never(file) == FALSE

Stale(file) == file.present /\ file.len > SerLen(file.rec)

(***************************************************************************)
(* A write of bytes at offset p of a file holding data (p <= Len(data)).   *)
(***************************************************************************)
WriteAt(data, p, bytes) ==
    [k \in 1..Max(Len(data), p + Len(bytes)) |->
        IF k > p /\ k <= p + Len(bytes) THEN bytes[k - p] ELSE data[k]]

\* simd_json::to_writer(&mut file, &messages[i]): one message record
Record(m) == <<LBRACE, m, RBRACE>>

NoMessages == [exists |-> FALSE, data |-> <<>>]

(***************************************************************************)
(* The message pager of the remote API: the newest MESSAGE_CHUNK_SIZE      *)
(* messages, or those strictly older than the cursor.                      *)
(***************************************************************************)
Page(c, before) ==
    LET h == History(c)
        older(m) == before = None \/ m < before
    IN  Take(SelectSeq(h, older), MESSAGE_CHUNK_SIZE)

Eligible(c) ==
    kind(c) \in {"GuildText", "GuildPublicThread", "GuildPrivateThread"}

NoRequest == [chan |-> None, before |-> None, ok |-> FALSE, n |-> 0]

Running == pc \notin {"stopped", "aborted", "panicked", "finished"}

Init ==
    /\ pc = "stopped"
    /\ runs = 0
    /\ faults = 0
    /\ ckpt = NoFile
    /\ meta = [c \in ChannelIds |-> "absent"]
    /\ mfile = [c \in ChannelIds |-> NoMessages]
    /\ state = NewState
    /\ channels = <<>>
    /\ messages = <<>>
    /\ channel = None
    /\ pos = 0
    /\ idx = 0
    /\ resumed = FALSE
    /\ loaded = NewState
    /\ nfetch = 0
    /\ lastReq = NoRequest
    /\ fetchErr = {}
    /\ popped = <<>>
    /\ discFailed = FALSE

(***************************************************************************)
(* The same program started in a directory where an earlier run has left   *)
(* output of one channel: its messages file alone, or both of its files.   *)
(***************************************************************************)
PriorArray == <<OPEN_BRACKET, CLOSE_BRACKET>>

InitPrior ==
    /\ pc = "stopped"
    /\ runs = 0
    /\ faults = 0
    /\ ckpt = NoFile
    /\ \E c \in {None, H, P} : \E both \in BOOLEAN :
          /\ c = None => ~both
          /\ meta = [x \in ChannelIds |->
                        IF x = c /\ both THEN "prior" ELSE "absent"]
          /\ mfile = [x \in ChannelIds |->
                        IF x = c
                        THEN [exists |-> TRUE, data |-> PriorArray]
                        ELSE NoMessages]
    /\ state = NewState
    /\ channels = <<>>
    /\ messages = <<>>
    /\ channel = None
    /\ pos = 0
    /\ idx = 0
    /\ resumed = FALSE
    /\ loaded = NewState
    /\ nfetch = 0
    /\ lastReq = NoRequest
    /\ fetchErr = {}
    /\ popped = <<>>
    /\ discFailed = FALSE

\* what a new process starts with, whatever the previous one left in memory
Boot(s) ==
    /\ runs' = runs + 1
    /\ state' = s
    /\ loaded' = s
    /\ channels' = <<>>
    /\ messages' = <<>>
    /\ channel' = None
    /\ pos' = 0
    /\ idx' = 0
    /\ resumed' = FALSE
    /\ nfetch' = 0
    /\ lastReq' = NoRequest
    /\ popped' = <<>>
    /\ discFailed' = FALSE

CanStart == pc \in {"stopped", "aborted", "panicked"} /\ runs < MaxRuns

(***************************************************************************)
(* main, lines 101-110: load or create the State, check the guild, save.   *)
(***************************************************************************)
StartFresh ==
    /\ CanStart
    /\ ~ckpt.present
    /\ Boot(NewState)
    /\ ckpt' = Saved(ckpt, NewState)
    /\ pc' = "enumerate"
    /\ UNCHANGED <<faults, meta, mfile, fetchErr>>

StartLoaded ==
    /\ CanStart
    /\ ckpt.present
    /\ ~Stale(ckpt)
    /\ ckpt.rec.current_guild = GUILD
    /\ Boot(ckpt.rec)
    /\ ckpt' = Saved(ckpt, ckpt.rec)
    /\ pc' = "enumerate"
    /\ UNCHANGED <<faults, meta, mfile, fetchErr>>

\* bytes of an older, longer save follow the record: the file is no JSON
\* document, from_reader fails and expect() panics (line 30)
StartStalePanic ==
    /\ CanStart
    /\ Stale(ckpt)
    /\ runs' = runs + 1
    /\ pc' = "panicked"
    /\ UNCHANGED <<faults, ckpt, meta, mfile, state, channels, messages,
                   channel, pos, idx, resumed, loaded, nfetch, lastReq,
                   fetchErr,
                   popped, discFailed>>

(***************************************************************************)
(* main, lines 112-135: guild_channels and active_threads.                 *)
(***************************************************************************)
Enumerate ==
    /\ pc = "enumerate"
    /\ channels' = GuildChannels \o ActiveThreads
    /\ pc' = "pop"
    /\ UNCHANGED <<runs, faults, ckpt, meta, mfile, state, messages, channel,
                   pos, idx, resumed, loaded, nfetch, lastReq, fetchErr,
                   popped, discFailed>>

EnumerateFail ==
    /\ pc = "enumerate"
    /\ faults < MaxFaults
    /\ faults' = faults + 1
    /\ pc' = "aborted"
    /\ UNCHANGED <<runs, ckpt, meta, mfile, state, channels, messages,
                   channel, pos, idx, resumed, loaded, nfetch, lastReq,
                   fetchErr,
                   popped, discFailed>>

(***************************************************************************)
(* main, lines 141-154: pop, and the two skips.                            *)
(***************************************************************************)
SkipBadType ==
    /\ pc = "pop"
    /\ channels # <<>>
    /\ ~Eligible(Last(channels))
    /\ channels' = Front(channels)
    /\ popped' = Append(popped, Last(channels))
    /\ UNCHANGED <<pc, runs, faults, ckpt, meta, mfile, state, messages,
                   channel, pos, idx, resumed, loaded, nfetch, lastReq,
                   fetchErr,
                   discFailed>>

\* the skip of lines 151-154 left out
AlreadyDone_NoSkip(c) == FALSE

AlreadyDone(c) == c \in state.channels_complete

SkipDone ==
    /\ pc = "pop"
    /\ channels # <<>>
    /\ Eligible(Last(channels))
    /\ AlreadyDone(Last(channels))
    /\ channels' = Front(channels)
    /\ popped' = Append(popped, Last(channels))
    /\ UNCHANGED <<pc, runs, faults, ckpt, meta, mfile, state, messages,
                   channel, pos, idx, resumed, loaded, nfetch, lastReq,
                   fetchErr,
                   discFailed>>

Pop ==
    /\ pc = "pop"
    /\ channels # <<>>
    /\ Eligible(Last(channels))
    /\ ~AlreadyDone(Last(channels))
    /\ channel' = Last(channels)
    /\ channels' = Front(channels)
    /\ popped' = Append(popped, Last(channels))
    /\ discFailed' = FALSE
    /\ nfetch' = 0
    /\ resumed' = FALSE
    /\ pc' = IF kind(Last(channels)) = "GuildText" THEN "discover" ELSE "open"
    /\ UNCHANGED <<runs, faults, ckpt, meta, mfile, state, messages, pos,
                   idx, loaded, lastReq, fetchErr>>

(***************************************************************************)
(* fetch_archived_threads, lines 67-91, called at lines 157-161: an error  *)
(* of either call is logged and the run goes on.                           *)
(***************************************************************************)
\* the listed threads put under the work list instead of on top of it
Pushed_Under(list, new) == new \o list

\* Vec::append, lines 72 and 81: the listed threads go on top of the stack
Pushed(list, new) == list \o new

DiscoverOk ==
    /\ pc = "discover"
    /\ channels' = Pushed(Pushed(channels, PublicArchived(channel)),
                           PrivateArchived(channel))
    /\ pc' = "open"
    /\ UNCHANGED <<runs, faults, ckpt, meta, mfile, state, messages, channel,
                   pos, idx, resumed, loaded, nfetch, lastReq, fetchErr,
                   popped, discFailed>>

\* the error of line 157 propagated instead of logged
AfterDiscoverError_Fatal == "aborted"

\* lines 157-159: the error is printed, execution goes on at line 163
AfterDiscoverError == "open"

DiscoverFailPublic ==
    /\ pc = "discover"
    /\ faults < MaxFaults
    /\ faults' = faults + 1
    /\ discFailed' = TRUE
    /\ pc' = AfterDiscoverError
    /\ UNCHANGED <<runs, ckpt, meta, mfile, state, channels, messages,
                   channel, pos, idx, resumed, loaded, nfetch, lastReq,
                   fetchErr,
                   popped>>

DiscoverFailPrivate ==
    /\ pc = "discover"
    /\ faults < MaxFaults
    /\ faults' = faults + 1
    /\ discFailed' = TRUE
    /\ channels' = Pushed(channels, PublicArchived(channel))
    /\ pc' = AfterDiscoverError
    /\ UNCHANGED <<runs, ckpt, meta, mfile, state, messages, channel, pos,
                   idx, resumed, loaded, nfetch, lastReq, fetchErr,
                   popped>>

(***************************************************************************)
(* main, lines 163-182: the output files of the popped channel.            *)
(***************************************************************************)
IsCurrent(c) == state.current_channel = c

\* .create(true) in the place of .create_new(true)
CreateNewFails_Create(exists) == FALSE

\* OpenOptions .create_new(true): the open fails when the file exists
CreateNewFails(exists) == exists

\* line 166 left out
ChannelStart_KeepCursor(s, c) == [s EXCEPT !.current_channel = c]

\* lines 165-166
ChannelStart(s, c) ==
    [s EXCEPT !.current_channel = c, !.last_message = None]

\* line 164 true: lines 165-171, create_new on <id>.meta.json
CreateMeta ==
    /\ pc = "open"
    /\ ~IsCurrent(channel)
    /\ state' = ChannelStart(state, channel)
    /\ IF CreateNewFails(meta[channel] # "absent")
       THEN /\ pc' = "aborted"
            /\ meta' = meta
       ELSE /\ pc' = "meta_write"
            /\ meta' = [meta EXCEPT ![channel] = "empty"]
    /\ UNCHANGED <<runs, faults, ckpt, mfile, channels, messages, channel,
                   pos, idx, resumed, loaded, nfetch, lastReq, fetchErr,
                   popped, discFailed>>

\* line 172
WriteMeta ==
    /\ pc = "meta_write"
    /\ meta' = [meta EXCEPT ![channel] = "written"]
    /\ pc' = "messages_create"
    /\ UNCHANGED <<runs, faults, ckpt, mfile, state, channels, messages,
                   channel, pos, idx, resumed, loaded, nfetch, lastReq,
                   fetchErr,
                   popped, discFailed>>

\* lines 174-177, create_new on <id>.messages.json
CreateMessages ==
    /\ pc = "messages_create"
    /\ IF CreateNewFails(mfile[channel].exists)
       THEN /\ pc' = "aborted"
            /\ UNCHANGED <<mfile, pos>>
       ELSE /\ pc' = "write_open"
            /\ mfile' = [mfile EXCEPT ![channel] =
                            [exists |-> TRUE, data |-> <<>>]]
            /\ pos' = 0
    /\ UNCHANGED <<runs, faults, ckpt, meta, state, channels, messages,
                   channel, idx, resumed, loaded, nfetch, lastReq, fetchErr,
                   popped, discFailed>>

\* what write!(file, ..) leaves in the file and where the handle stands
Written(f, p, bytes) ==
    [data |-> WriteAt(f.data, p, bytes), pos |-> p + Len(bytes)]

FileWrite(bytes) ==
    LET w == Written(mfile[channel], pos, bytes)
    IN  /\ mfile' = [mfile EXCEPT ![channel].data = w.data]
        /\ pos' = w.pos

\* the save of line 183 left out on the fresh path
AfterOutputOpened_NoSave == "loop"

\* what follows line 179: the save of line 183
AfterOutputOpened == "save_channel"

\* line 178
WriteOpen ==
    /\ pc = "write_open"
    /\ FileWrite(<<OPEN_BRACKET>>)
    /\ pc' = AfterOutputOpened
    /\ UNCHANGED <<runs, faults, ckpt, meta, state, channels, messages,
                   channel, idx, resumed, loaded, nfetch, lastReq, fetchErr,
                   popped, discFailed>>

\* where OpenOptions::new().write(true).open() puts the handle
ReopenAt(f) == 0

\* line 164 false: line 181, the file is opened for writing, not created
Reopen ==
    /\ pc = "open"
    /\ IsCurrent(channel)
    /\ IF mfile[channel].exists
       THEN /\ pc' = "save_channel"
            /\ pos' = ReopenAt(mfile[channel])
            /\ resumed' = TRUE
       ELSE /\ pc' = "aborted"
            /\ UNCHANGED <<pos, resumed>>
    /\ UNCHANGED <<runs, faults, ckpt, meta, mfile, state, channels,
                   messages, channel, idx, loaded, nfetch, lastReq, fetchErr,
                   popped, discFailed>>

\* line 183
SaveChannel ==
    /\ pc = "save_channel"
    /\ ckpt' = Saved(ckpt, state)
    /\ pc' = "loop"
    /\ UNCHANGED <<runs, faults, meta, mfile, state, channels, messages,
                   channel, pos, idx, resumed, loaded, nfetch, lastReq,
                   fetchErr,
                   popped, discFailed>>

(***************************************************************************)
(* main, lines 185-219: the paging loop.                                   *)
(***************************************************************************)
\* the test of line 186 left out
LoopCondition_FirstPageOnly == state.last_message = None

LoopCondition ==
    state.last_message = None \/ Len(messages) = MESSAGE_CHUNK_SIZE

\* where a failed fetch (line 192, break) continues
AfterFetchError == "close"

LoopExit ==
    /\ pc = "loop"
    /\ ~LoopCondition
    /\ pc' = "close"
    /\ UNCHANGED <<runs, faults, ckpt, meta, mfile, state, channels,
                   messages, channel, pos, idx, resumed, loaded, nfetch,
                   lastReq, fetchErr,
                   popped, discFailed>>

\* lines 188-189, 202-209: fetch_message_chunk succeeds
FetchOk ==
    /\ pc = "loop"
    /\ LoopCondition
    /\ messages' = Page(state.current_channel, state.last_message)
    /\ nfetch' = nfetch + 1
    /\ lastReq' = [chan |-> state.current_channel,
                    before |-> state.last_message,
                    ok |-> TRUE, n |-> Len(messages')]
    /\ fetchErr' = IF Len(messages') < MESSAGE_CHUNK_SIZE
                   THEN fetchErr \ {channel} ELSE fetchErr
    /\ idx' = 1
    /\ pc' = IF messages' = <<>> THEN "close"
             ELSE IF state.last_message # None THEN "write_sep"
             ELSE "write_record"
    /\ UNCHANGED <<runs, faults, ckpt, meta, mfile, state, channels, channel,
                   pos, resumed, loaded,
                   popped, discFailed>>

\* lines 190-193: fetch_message_chunk fails
FetchError ==
    /\ pc = "loop"
    /\ LoopCondition
    /\ faults < MaxFaults
    /\ faults' = faults + 1
    /\ nfetch' = nfetch + 1
    /\ lastReq' = [chan |-> state.current_channel,
                    before |-> state.last_message,
                    ok |-> FALSE, n |-> 0]
    /\ fetchErr' = fetchErr \cup {channel}
    /\ pc' = AfterFetchError
    /\ UNCHANGED <<runs, ckpt, meta, mfile, state, channels, messages,
                   channel, pos, idx, resumed, loaded,
                   popped, discFailed>>

\* line 208
WriteSep ==
    /\ pc = "write_sep"
    /\ FileWrite(<<COMMA>>)
    /\ pc' = "write_record"
    /\ UNCHANGED <<runs, faults, ckpt, meta, state, channels, messages,
                   channel, idx, resumed, loaded, nfetch, lastReq, fetchErr,
                   popped, discFailed>>

\* line 211
WriteRecord ==
    /\ pc = "write_record"
    /\ FileWrite(Record(messages[idx]))
    /\ pc' = IF idx < Len(messages) THEN "write_comma" ELSE "save_page"
    /\ UNCHANGED <<runs, faults, ckpt, meta, state, channels, messages,
                   channel, idx, resumed, loaded, nfetch, lastReq, fetchErr,
                   popped, discFailed>>

\* line 213
WriteComma ==
    /\ pc = "write_comma"
    /\ FileWrite(<<COMMA>>)
    /\ idx' = idx + 1
    /\ pc' = "write_record"
    /\ UNCHANGED <<runs, faults, ckpt, meta, state, channels, messages,
                   channel, resumed, loaded, nfetch, lastReq, fetchErr,
                   popped, discFailed>>

\* line 217 left out: the cursor stays where it was
Advanced_Not(s, msgs) == s

\* line 217: the cursor is the identifier of the last message of the page
Advanced(s, msgs) == [s EXCEPT !.last_message = Last(msgs)]

\* lines 217-218
SavePage ==
    /\ pc = "save_page"
    /\ state' = Advanced(state, messages)
    /\ ckpt' = Saved(ckpt, state')
    /\ pc' = "loop"
    /\ UNCHANGED <<runs, faults, meta, mfile, channels, messages, channel,
                   pos, idx, resumed, loaded, nfetch, lastReq, fetchErr,
                   popped, discFailed>>

(***************************************************************************)
(* main, lines 221-223: close the array, mark the channel, save.           *)
(***************************************************************************)
WriteClose ==
    /\ pc = "close"
    /\ FileWrite(<<CLOSE_BRACKET>>)
    /\ pc' = "complete"
    /\ UNCHANGED <<runs, faults, ckpt, meta, state, channels, messages,
                   channel, idx, resumed, loaded, nfetch, lastReq, fetchErr,
                   popped, discFailed>>

\* the State that line 222 leaves
Completed(s, c) ==
    [s EXCEPT !.channels_complete = s.channels_complete \cup {c}]

Complete ==
    /\ pc = "complete"
    /\ state' = Completed(state, channel)
    /\ ckpt' = Saved(ckpt, state')
    /\ pc' = "pop"
    /\ UNCHANGED <<runs, faults, meta, mfile, channels, messages, channel,
                   pos, idx, resumed, loaded, nfetch, lastReq, fetchErr,
                   popped, discFailed>>

(***************************************************************************)
(* main, line 234: the work list is empty, the checkpoint is removed.      *)
(***************************************************************************)
\* the checkpoint removed whatever the work list holds
WorkListEmpty_Always == TRUE

\* line 141: channels.pop() returns None
WorkListEmpty == channels = <<>>

Finish ==
    /\ pc = "pop"
    /\ WorkListEmpty
    /\ ckpt' = NoFile
    /\ pc' = "finished"
    /\ UNCHANGED <<runs, faults, meta, mfile, state, channels, messages,
                   channel, pos, idx, resumed, loaded, nfetch, lastReq,
                   fetchErr,
                   popped, discFailed>>

(***************************************************************************)
(* The process is killed between two steps: what is on disk stays, what    *)
(* it held in memory is gone.                                              *)
(***************************************************************************)
Kill ==
    /\ Running
    /\ pc' = "stopped"
    /\ state' = NewState
    /\ loaded' = NewState
    /\ channels' = <<>>
    /\ messages' = <<>>
    /\ channel' = None
    /\ pos' = 0
    /\ idx' = 0
    /\ resumed' = FALSE
    /\ nfetch' = 0
    /\ lastReq' = NoRequest
    /\ popped' = <<>>
    /\ discFailed' = FALSE
    /\ UNCHANGED <<runs, faults, ckpt, meta, mfile, fetchErr>>

Next ==
    \/ StartFresh
    \/ StartLoaded
    \/ StartStalePanic
    \/ Enumerate
    \/ EnumerateFail
    \/ SkipBadType
    \/ SkipDone
    \/ Pop
    \/ DiscoverOk
    \/ DiscoverFailPublic
    \/ DiscoverFailPrivate
    \/ CreateMeta
    \/ WriteMeta
    \/ CreateMessages
    \/ WriteOpen
    \/ Reopen
    \/ SaveChannel
    \/ LoopExit
    \/ FetchOk
    \/ FetchError
    \/ WriteSep
    \/ WriteRecord
    \/ WriteComma
    \/ SavePage
    \/ WriteClose
    \/ Complete
    \/ Finish
    \/ Kill

Spec == Init /\ [][Next]_vars

SpecPrior == InitPrior /\ [][Next]_vars

(***************************************************************************)
(* What the claims speak of.                                               *)
(***************************************************************************)
\* completed_channels of the checkpoint on disk
PersistedDone == IF ckpt.present THEN ckpt.rec.channels_complete ELSE {}

\* current_channel of the checkpoint on disk
PersistedCurrent == IF ckpt.present THEN ckpt.rec.current_channel ELSE None

\* the channel and cursor this run was asked to resume, if any
ResumeChannel ==
    IF loaded.current_channel \notin loaded.channels_complete
    THEN loaded.current_channel ELSE None

EligibleChannels == {c \in ChannelIds : Eligible(c)}

IsPrefix(s, t) == Len(s) <= Len(t) /\ SubSeq(t, 1, Len(s)) = s

\* data is rec ("," rec)*, each rec a whole message record
IsRecords(data) ==
    /\ Len(data) % 4 = 3
    /\ \A k \in 1..Len(data) :
          CASE k % 4 = 1 -> data[k] = LBRACE
            [] k % 4 = 2 -> data[k] \in MessageIds
            [] k % 4 = 3 -> data[k] = RBRACE
            [] OTHER -> data[k] = COMMA

\* data is a syntactically complete array of message records
IsArray(data) ==
    /\ Len(data) >= 2
    /\ data[1] = OPEN_BRACKET
    /\ data[Len(data)] = CLOSE_BRACKET
    /\ Len(data) = 2 \/ IsRecords(SubSeq(data, 2, Len(data) - 1))

\* C1: after a page fetch for channel X has failed (and X was not exhausted
\* by a later fetch), X is in neither the in-memory nor the persisted
\* completed_channels, and while X is still the channel being processed
\* the persisted checkpoint names it as current_channel.
C1_FetchErrorLeavesChannelOpen ==
    \A X \in fetchErr :
        /\ X \notin state.channels_complete
        /\ X \notin PersistedDone
        /\ (Running /\ channel = X) => PersistedCurrent = X

\* C2: a channel resumed from the checkpoint is closed only after at least
\* one further page fetch, the first of them with the checkpointed cursor,
\* and the last page received was short or empty (fetch errors left aside).
C2_ResumeFetchesFromCursor ==
    (Running /\ resumed /\ channel \notin fetchErr) =>
        /\ nfetch = 1 =>
              /\ lastReq.chan = channel
              /\ lastReq.before = loaded.last_message
        /\ pc \in {"close", "complete"} =>
              /\ nfetch >= 1
              /\ lastReq.ok
              /\ lastReq.n < MESSAGE_CHUNK_SIZE

\* C3: current_channel, if present, is never a member of
\* completed_channels, in memory and on disk (no network call having
\* failed).
C3_CurrentNotCompleted ==
    faults = 0 =>
        /\ state.current_channel \notin state.channels_complete
        /\ PersistedCurrent \notin PersistedDone

\* C4: when a sequence of runs ends in the terminal state (work list
\* empty, checkpoint deleted) and no network call has failed, every
\* eligible channel, active thread and archived thread of the guild is in
\* completed_channels.
C4_TerminalStateIsExhaustive ==
    (pc = "finished" /\ faults = 0) =>
        EligibleChannels \subseteq state.channels_complete

\* C5: the messages file of every channel in the persisted
\* completed_channels is a syntactically complete array (the half of the
\* equivalence that does not depend on where the process is killed; no
\* network call having failed).
C5_CompletedFileIsArray ==
    faults = 0 => \A c \in PersistedDone : IsArray(mfile[c].data)

\* C6: a run restarted with a checkpoint that names an uncompleted
\* current_channel X does not reach the terminal state without having
\* marked X complete (no network call having failed).
C6_RestartCompletesCurrent ==
    (pc = "finished" /\ faults = 0 /\ ResumeChannel # None) =>
        ResumeChannel \in state.channels_complete

\* C8: once the existing messages file of the checkpoint's current_channel
\* is reopened, every write lands after its existing content, and the
\* metadata file is left as it is.
C8_ResumeAppends ==
    [][resumed =>
          /\ IsPrefix(mfile[channel].data, mfile'[channel].data)
          /\ meta'[channel] = meta[channel]]_vars

\* the records of the messages of c from the newest down to m, in the file
HoldsRecordsDownTo(data, c, m) ==
    \A x \in {History(c)[k] : k \in 1..Len(History(c))} :
        x >= m => \E k \in 1..(Len(data) - 2) :
                     SubSeq(data, k, k + 2) = Record(x)

\* C9: what the persisted checkpoint says is already in the output files:
\* its current_channel has a metadata file and a messages file that opens
\* with the opening delimiter, the messages file holds the record of
\* last_seen_message_id and of every message fetched before it, and the
\* messages file of a completed channel ends with the closing delimiter.
C9_CheckpointAfterOutput ==
    ckpt.present =>
        LET X == ckpt.rec.current_channel
            m == ckpt.rec.last_message
        IN  /\ X # None =>
                  /\ meta[X] = "written"
                  /\ mfile[X].exists
                  /\ Len(mfile[X].data) >= 1
                  /\ mfile[X].data[1] = OPEN_BRACKET
            /\ m # None => HoldsRecordsDownTo(mfile[X].data, X, m)
            /\ \A c \in ckpt.rec.channels_complete :
                  /\ mfile[c].exists
                  /\ Len(mfile[c].data) >= 1
                  /\ mfile[c].data[Len(mfile[c].data)] = CLOSE_BRACKET

\* C7: a channel in completed_channels stays there (in memory during a
\* run, on disk as long as the checkpoint exists); no step writes or
\* creates its output files, fetches a page for it, discovers its archived
\* threads, processes it, or makes it current_channel again.  (The set is a
\* HashSet: an identifier is in it once.)
C7_NoDoubleCompletion ==
    [][\A X \in state.channels_complete \cup PersistedDone :
          /\ ckpt'.present => X \in ckpt'.rec.channels_complete
          /\ Running' => X \in state'.channels_complete
          /\ mfile'[X] = mfile[X]
          /\ meta'[X] = meta[X]
          /\ ~(nfetch' = nfetch + 1 /\ lastReq'.chan = X)
          /\ ~(pc = "discover" /\ channel = X)
          /\ (Running' /\ pc' \notin {"enumerate", "pop"}) => channel' # X
          /\ (Running /\ state.current_channel # X) =>
                state'.current_channel # X
          /\ PersistedCurrent # X => PersistedCurrent' # X]_vars

\* a restarted run has popped and skipped the completed channel H
C7_Witness ==
    /\ runs >= 2
    /\ pc = "pop"
    /\ H \in loaded.channels_complete
    /\ channels = GuildChannels

\* C10: when the popped channel is not the checkpoint's current_channel
\* and its metadata file or its messages file already exists, the step
\* that would create the existing file ends the run with a fatal error;
\* the existing file and the persisted checkpoint are left as they are.
C10_FreshCreationNeverOverwrites ==
    [][/\ (pc = "open" /\ ~IsCurrent(channel) /\ meta[channel] # "absent") =>
             /\ pc' \in {"aborted", "stopped"}
             /\ meta' = meta
             /\ mfile' = mfile
             /\ ckpt' = ckpt
       /\ (/\ \/ pc = "open" /\ ~IsCurrent(channel)
              \/ pc \in {"meta_write", "messages_create"}
           /\ mfile[channel].exists) =>
             /\ mfile' = mfile
             /\ ckpt' = ckpt
             /\ pc = "messages_create" => /\ pc' \in {"aborted", "stopped"}
                                          /\ meta' = meta]_vars

\* the run has ended on the messages file another run had left for P
C10_Witness ==
    /\ pc = "aborted"
    /\ channel = P
    /\ state.current_channel = P
    /\ meta[P] = "written"
    /\ mfile[P].data = PriorArray
    /\ P \notin PersistedDone

\* the bytes of records ("," records)* for the messages ids, in order
RECURSIVE Records(_)
Records(ids) ==
    IF ids = <<>> THEN <<>>
    ELSE IF Len(ids) = 1 THEN Record(ids[1])
    ELSE Record(ids[1]) \o <<COMMA>> \o Records(Tail(ids))

\* the complete array of the messages ids
ArrayOf(ids) == <<OPEN_BRACKET>> \o Records(ids) \o <<CLOSE_BRACKET>>

\* the channel being processed was started in this run and none of its
\* page fetches has failed
Uninterrupted == Running /\ ~resumed /\ channel \notin fetchErr

\* C11: a channel with n messages that is paged without interruption or
\* failure takes n \div MESSAGE_CHUNK_SIZE + 1 fetches, and its closed
\* messages file is the opening delimiter, the n records in fetch order
\* separated by single commas, and the closing delimiter.
C11_PagingResult ==
    (Uninterrupted /\ pc = "complete") =>
        /\ nfetch = (Len(History(channel)) \div MESSAGE_CHUNK_SIZE) + 1
        /\ mfile[channel].data = ArrayOf(History(channel))

\* H (three messages, two pages) has been paged and closed in one go
C11_Witness ==
    /\ Uninterrupted
    /\ pc = "complete"
    /\ channel = H
    /\ nfetch = 2
    /\ Len(mfile[H].data) = 13

PagingPcs ==
    {"loop", "write_sep", "write_record", "write_comma", "save_page",
     "close", "complete"}

MessagesOf(c) == {History(c)[k] : k \in 1..Len(History(c))}

\* the cursor of a State record is absent or a message of its channel
CursorOfChannel(rec) ==
    rec.last_message # None =>
        /\ rec.current_channel # None
        /\ rec.last_message \in MessagesOf(rec.current_channel)

\* C13: in memory and on disk, a present last_message is a message of
\* current_channel and is absent when current_channel is; a step of a run
\* that changes current_channel leaves the cursor absent.
C13_CursorBelongsToChannel ==
    [][/\ CursorOfChannel(state) /\ CursorOfChannel(state')
       /\ ckpt.present => CursorOfChannel(ckpt.rec)
       /\ ckpt'.present => CursorOfChannel(ckpt'.rec)
       /\ (Running /\ Running'
             /\ state'.current_channel # state.current_channel) =>
             state'.last_message = None
       /\ (ckpt.present /\ ckpt'.present
             /\ ckpt'.rec.current_channel # ckpt.rec.current_channel) =>
             ckpt'.rec.last_message = None]_vars

\* T has become current_channel, on disk too, after H was paged to cursor 7
C13_Witness ==
    /\ pc = "loop"
    /\ channel = T
    /\ H \in PersistedDone
    /\ mfile[H].data = ArrayOf(History(H))
    /\ ckpt.rec.current_channel = T
    /\ ckpt.rec.last_message = None

\* the step in which fetch_archived_threads returns an error
DiscoveryFails == pc = "discover" /\ discFailed'

\* C14: a failure of archived-thread discovery (public or private listing)
\* does not abort the run: the step goes on to the channel's output files
\* with the record untouched and the work list holding what it held plus the
\* threads listed before the failure; a first run that has popped a channel
\* is never aborted; and a channel whose discovery failed and whose pages
\* were all fetched holds its whole history as a closed array and is marked
\* complete, in memory and in the checkpoint, by the following step.
C14_DiscoveryFailureNonFatal ==
    [][/\ DiscoveryFails =>
             /\ pc' = "open"
             /\ channel' = channel
             /\ state' = state
             /\ ckpt' = ckpt
             /\ channels' \in {channels, channels \o PublicArchived(channel)}
       /\ (runs = 1 /\ popped # <<>>) => pc \notin {"aborted", "panicked"}
       /\ (discFailed /\ Uninterrupted /\ pc = "complete") =>
             /\ nfetch >= 1
             /\ mfile[channel].data = ArrayOf(History(channel))
             /\ (pc' # "stopped") =>
                   /\ channel \in state'.channels_complete
                   /\ channel \in ckpt'.rec.channels_complete]_vars

\* the text channel, its private listing failed, is complete with its two
\* messages and the public archived thread waits on the work list
C14_Witness ==
    /\ pc = "pop"
    /\ discFailed
    /\ channel = T
    /\ T \in PersistedDone
    /\ mfile[T].data = ArrayOf(History(T))
    /\ channels = <<V, A>>
    /\ runs = 1
    /\ fetchErr = {}

\* the work list as lines 112-135 build it
Enumerated == GuildChannels \o ActiveThreads

\* the place of x in a sequence that holds it
PosIn(seq, x) == CHOOSE i \in 1..Len(seq) : seq[i] = x

ItemsOf(seq) == {seq[i] : i \in 1..Len(seq)}

\* the archived threads of the text channels of the guild
Discovered ==
    UNION {ItemsOf(PublicArchived(c)) \cup ItemsOf(PrivateArchived(c)) :
           c \in ItemsOf(Enumerated)}

\* C15: the work list is a stack. Every pop takes the last item; on the
\* work list the discovered threads lie above every enumerated item;
\* enumerated items are popped in the reverse of their enumeration order;
\* and when an enumerated item is popped no discovered thread is left on
\* the list and none is popped after it, so the threads discovered at a
\* text channel are all popped before the items that lay under it.
C15_LifoOrder ==
    [][/\ popped' # popped /\ popped' # <<>> =>
             /\ channels # <<>>
             /\ popped' = Append(popped, Last(channels))
             /\ channels' = Front(channels)
             /\ Last(channels) \in ItemsOf(Enumerated) =>
                   ItemsOf(channels') \cap Discovered = {}
       /\ \A i, j \in 1..Len(channels) :
             (i < j /\ channels[i] \in Discovered) =>
                 channels[j] \in Discovered
       /\ \A i, j \in 1..Len(popped) :
             /\ (i < j /\ popped[i] \in ItemsOf(Enumerated)
                       /\ popped[j] \in ItemsOf(Enumerated)) =>
                     PosIn(Enumerated, popped[i]) > PosIn(Enumerated, popped[j])
             /\ (i < j /\ popped[i] \in ItemsOf(Enumerated)
                       /\ popped[j] \in Discovered) =>
                     PosIn(Enumerated, popped[i]) >= PosIn(Enumerated, T)]_vars

\* both archived threads of T were popped before V, which lay under T
C15_Witness ==
    /\ popped = <<H, T, P, A, V>>
    /\ channels = <<>>
    /\ pc = "pop"

\* C16: the checkpoint is removed only by the step that finds the work list
\* empty in a run that has not aborted or panicked, and in every other state
\* after the first start of a run (running, aborted, panicked or killed) a
\* checkpoint file is on disk.
C16_TerminalSignal ==
    [][/\ (ckpt.present /\ ~ckpt'.present) =>
             /\ pc = "pop"
             /\ channels = <<>>
             /\ pc' = "finished"
       /\ (runs >= 1 /\ pc # "finished") => ckpt.present
       /\ pc = "finished" => ~ckpt.present /\ channels = <<>>]_vars

\* a second run, started from the checkpoint a killed run left, has popped
\* everything and removed the checkpoint
C16_Witness ==
    /\ pc = "finished"
    /\ ~ckpt.present
    /\ runs = 2
    /\ loaded.channels_complete # {}

\* the step that starts a run: lines 101-110
Starts == runs' = runs + 1

\* the checkpoint file exists and is no JSON document
Unparseable(file) == file.present /\ file.len > SerLen(file.rec)

\* C17 as stated: a run started on a missing or on an unparseable checkpoint
\* goes on with the fresh record.
C17_LoadFallsBackToFresh ==
    [][(faults = 0 /\ Starts /\ (~ckpt.present \/ Unparseable(ckpt))) =>
           /\ state' = NewState
           /\ pc' = "enumerate"]_vars

\* C17, amended: a run started on a missing checkpoint goes on with the
\* fresh record and saves it; a run started on an unparseable checkpoint
\* panics and leaves the checkpoint and the output files as they were.
C17_MissingFreshCorruptPanics ==
    [][/\ (Starts /\ ~ckpt.present) =>
             /\ state' = NewState
             /\ ckpt'.present /\ ckpt'.rec = NewState
             /\ pc' = "enumerate"
       /\ (Starts /\ Unparseable(ckpt)) =>
             /\ pc' = "panicked"
             /\ ckpt' = ckpt /\ meta' = meta /\ mfile' = mfile]_vars

\* a restart has panicked on a checkpoint with bytes behind its record
C17_Witness ==
    /\ pc = "panicked"
    /\ runs = 2
    /\ Unparseable(ckpt)

\* C18: after every save the checkpoint file is exactly the serialization of
\* the saved record, with no bytes of a longer earlier record behind it.
C18_SaveRewritesWholeFile ==
    (faults = 0 /\ ckpt.present) => ckpt.len = SerLen(ckpt.rec)

\* an output file of the popped channel is on disk and create_new has
\* refused it: main has returned the error of line 171 or of line 177
FileConflict ==
    /\ pc = "aborted"
    /\ channel # None
    /\ meta[channel] # "absent" \/ mfile[channel].exists

\* C19: whenever a run is killed, no restarted run aborts on an output file
\* the killed run left; with no network fault no run aborts at all.
C19_RestartNeverConflicts ==
    /\ ~FileConflict
    /\ faults = 0 => pc # "aborted"

(***************************************************************************)
(* Termination of a run, by a measure that every step of a running process *)
(* decreases: the work still on the list, then the place in the popped     *)
(* channel, where the paging loop is measured by the messages older than   *)
(* the cursor.                                                             *)
(***************************************************************************)
LongestHistory ==
    CHOOSE n \in {Len(History(c)) : c \in ChannelIds} :
        \A c \in ChannelIds : Len(History(c)) <= n

\* the messages of the popped channel the pager has yet to return
Remaining ==
    LET older(m) == state.last_message = None \/ m < state.last_message
    IN  Len(SelectSeq(History(channel), older))

\* the steps of one turn of the loop of lines 186-219, and room to spare
Stride == 2 * MESSAGE_CHUNK_SIZE + 6

PageBase == Stride * Remaining + 3

LoopTop == Stride * (LongestHistory + 1) + 3

PhaseRank ==
    CASE pc = "discover"        -> LoopTop + 6
      [] pc = "open"            -> LoopTop + 5
      [] pc = "meta_write"      -> LoopTop + 4
      [] pc = "messages_create" -> LoopTop + 3
      [] pc = "write_open"      -> LoopTop + 2
      [] pc = "save_channel"    -> LoopTop + 1
      [] pc = "loop"            -> PageBase + 2 * MESSAGE_CHUNK_SIZE + 2
      [] pc = "write_sep"       -> PageBase + 2 * Len(messages) + 1
      [] pc = "write_record"    -> PageBase + 2 * (Len(messages) - idx) + 2
      [] pc = "write_comma"     -> PageBase + 2 * (Len(messages) - idx) + 1
      [] pc = "save_page"       -> PageBase + 1
      [] pc = "close"           -> 2
      [] pc = "complete"        -> 1
      [] OTHER                  -> 0

ChannelSpan == LoopTop + 7

\* a work-list item and the threads its discovery can push
Weight(c) ==
    IF kind(c) = "GuildText"
    THEN 1 + Len(PublicArchived(c)) + Len(PrivateArchived(c))
    ELSE 1

RECURSIVE Pending(_)
Pending(list) ==
    IF list = <<>> THEN 0 ELSE Weight(list[1]) + Pending(Tail(list))

WorkLeft ==
    IF pc = "enumerate" THEN Pending(Enumerated) + 1
    ELSE Pending(channels)
         + (IF pc = "discover" THEN Weight(channel) - 1 ELSE 0)

Rank == ChannelSpan * WorkLeft + PhaseRank

\* C20: every run stops. A running process always has a step to take, every
\* step that leaves it running decreases Rank, which is never negative, and
\* a run leaves the running states only as finished, aborted, panicked or
\* killed; no item is popped twice in a run, and the paging loop of a
\* channel issues at most floor(n / page size) + 1 fetches, failed ones
\* counted.
C20_EveryRunStops ==
    [][/\ Running => /\ Rank >= 0
                     /\ ENABLED (Next /\ pc' # "stopped")
       /\ (Running /\ Running') => Rank' < Rank
       /\ \A i, j \in 1..Len(popped) : i < j => popped[i] # popped[j]
       /\ (Running /\ channel # None) =>
             nfetch <= (Len(History(channel)) \div MESSAGE_CHUNK_SIZE) + 1
       /\ pc = "finished" => channels = <<>> /\ ~ckpt.present]_vars

\* a first run with no fault and no kill has popped every item, fetched
\* every page and stopped in the terminal state
C20_Witness ==
    /\ pc = "finished"
    /\ runs = 1
    /\ faults = 0
    /\ Len(popped) = 5
    /\ \A c \in {H, T, P, A} : mfile[c].data = ArrayOf(History(c))

====
